---- MODULE Spec2Model ----
(***************************************************************************)
(* Model of Resources/lldb_server.py: the Handler dispatch loop, the       *)
(* EventThread it owns, the transport lock and the session state           *)
(* (self.target, self.eventThread, the prepared launch descriptor).        *)
(* The LLDB engine is an external collaborator: each call the server makes *)
(* into it is modelled by its effect on the engine-side process state and  *)
(* by a nondeterministic choice over the results the call can return.      *)
(***************************************************************************)
EXTENDS Integers, Sequences, FiniteSets, TLC

\* ------------------------------------------------------------------ bounds
MaxQ == 1           \* events waiting in the notifier's listener
MaxLen == 2         \* declared payload length of an input frame
MaxAddr == 1        \* file and load addresses of the modules of an event

\* ------------------------------------------------------------ value spaces
NoId == 0
Ids == {1, 2}                     \* caller-chosen correlation ids
NoT == [h |-> -1]                 \* self.target == None
Units == {"D", "E"}               \* D: Handler.run, E: EventThread.run
ProcStates == {"none", "stopped", "running", "exited", "detached"}

VARIABLES
  target,       \* self.target: NoT, or [h |-> 0] (invalid SBTarget), or [h |-> 1 or 2]
  evRef,        \* self.eventThread is not None
  stopRequest,  \* self.eventThread.stopRequest
  desc,         \* prepared descriptor (executable_path, launch_args, cwd): 0 = unset
  proc,         \* engine: state of the process of the target self.target refers to
  oproc,        \* engine: state of the process the notifier watches, once the session
                \* dropped its target ("none" otherwise)
  evq,          \* engine: events queued on the notifier's listener
  listening,    \* engine: what the notifier's listener is subscribed to: "none", "cur"
                \* (the process of self.target) or "orphan" (a process of a dropped target)
  pc,           \* position of each unit
  msg,          \* message each unit is writing (or wrote last)
  cont,         \* where each unit goes on after transportWrite returns
  launched,     \* history: createProcess was answered ok and no detach or
                \* deleteProcess frame was read since
  reqId,        \* the id of the command the dispatcher is answering (NoId: none)
  lock,         \* self.transport_lock: "free" or the unit holding it
  outTail,      \* output stream (the descriptor of argv[2], written by transportWrite
                \* only; print() goes to sys.stdout): the chunks written after the
                \* last whole frame
  nD,           \* whole messages the dispatcher wrote since it read the last frame
  ioFailed,     \* a write or flush on the output stream has raised
  cmd_mode      \* self.cmd_mode: line mode (no arguments) or binary mode

vars == <<target, evRef, stopRequest, desc, proc, oproc, evq, listening,
          pc, msg, cont, launched, reqId, lock, outTail, nD, ioFailed, cmd_mode>>

session == <<target, evRef, stopRequest, desc>>
engine  == <<proc, oproc, evq, listening>>

\* ---------------------------------------------------------------- messages
M(status, type, text) ==
  [status |-> status, type |-> type, text |-> text, id |-> NoId, pst |-> "na"]

buildError(text) == M("error", "none", text)

buildOK == M("ok", "none", "")

Typed(type, text) == M("none", type, text)

NoMsg == M("none", "none", "")

\* "stopped" message; pst records the engine state of the process when the
\* thread id and pc were gathered
StoppedMsg(reason, pst) == [Typed("stopped", reason) EXCEPT !.pst = pst]

\* ------------------------------------------------------------ engine views
Alive(p) == p \in {"stopped", "running"}

\* self.target.GetProcess() == None: the target has no process
GetProcessIsNone == target # NoT /\ proc = "none"

\* the guard `self.target == None or self.target.GetProcess() == None`
NoProcess == target = NoT \/ GetProcessIsNone

\* `not self.target`: None, or an SBTarget that is not valid
NotTarget == target = NoT \/ target.h = 0

\* a state change of the process of self.target is broadcast to the listener
\* subscribed to it
Broadcast(ev) == IF listening = "cur" THEN Append(evq, ev) ELSE evq

\* state of the process the notifier's listener is subscribed to
Watched == IF listening = "cur" THEN proc ELSE oproc

\* debugger.CreateTarget returns a target the session did not hold before
Fresh == IF target.h = 1 THEN 2 ELSE 1

\* self.target is overwritten: a process the notifier watches lives on in the
\* engine, out of the session's reach
Dropped ==
  IF listening = "cur"
  THEN listening' = "orphan" /\ oproc' = proc
  ELSE UNCHANGED <<listening, oproc>>

StateEv(st) == [k |-> "state", st |-> st]

\* ------------------------------------------------------------------- Init
Init ==
  /\ target = NoT
  /\ evRef = TRUE
  /\ stopRequest = FALSE
  /\ desc = 0
  /\ proc = "none"
  /\ oproc = "none"
  /\ evq = <<>>
  /\ listening = "none"
  /\ pc = [u \in Units |-> IF u = "D" THEN "start" ELSE "new"]
  /\ msg = [u \in Units |-> NoMsg]
  /\ cont = [u \in Units |-> "read"]
  /\ reqId = NoId
  /\ launched = FALSE
  /\ lock = "free"
  /\ outTail = <<>>
  /\ nD = 0
  /\ ioFailed = FALSE
  /\ cmd_mode \in BOOLEAN

\* ------------------------------------------------------- transport (write)
Chunk(u, part) == [by |-> u, part |-> part]

\* the stream after one more chunk: a length prefix directly followed by the
\* payload of the same write is a whole frame and leaves the tail empty
Emit(tail, c) ==
  IF c.part = "pay" /\ tail = <<Chunk(c.by, "len")>> THEN <<>> ELSE Append(tail, c)

\* the message of unit u is on the stream: it is counted; a reply ends the
\* handling of the command
Written(u) ==
  /\ nD' = IF u = "D" THEN nD + 1 ELSE nD
  /\ reqId' = IF u = "D" /\ cont[u] = "read" THEN NoId ELSE reqId

\* transportWrite that does not wait for the lock
transportWrite_acquire_nowait(u) ==
  /\ pc[u] = "w_acq"
  /\ lock' = u
  /\ msg' = [msg EXCEPT ![u] = NoMsg]
  /\ pc' = [pc EXCEPT ![u] = "w_len"]
  /\ UNCHANGED <<session, engine, cont, reqId, outTail, nD, ioFailed, cmd_mode, launched>>

\* transportWrite up to `self.transport_lock.acquire()`: the document msg[u]
\* was serialised and encoded, from here on it is `length` and `payload`
transportWrite_acquire(u) ==
  /\ pc[u] = "w_acq"
  /\ lock = "free"
  /\ lock' = u
  /\ msg' = [msg EXCEPT ![u] = NoMsg]
  /\ pc' = [pc EXCEPT ![u] = "w_len"]
  /\ UNCHANGED <<session, engine, cont, reqId, outTail, nD, ioFailed, cmd_mode, launched>>

\* transportWrite, `self.output_fd.write(length)`, in line mode
\* `self.output_fd.write("OUTPUT: ")`
transportWrite_length(u) ==
  /\ pc[u] = "w_len"
  /\ outTail' = Emit(outTail, Chunk(u, "len"))
  /\ pc' = [pc EXCEPT ![u] = "w_pay"]
  /\ UNCHANGED <<session, engine, msg, cont, reqId, lock, nD, ioFailed, cmd_mode, launched>>

\* transportWrite, `write(payload)`, `flush()`, `self.transport_lock.release()`;
\* in line mode output_fd is the text stream sys.stdout and `payload` is
\* bytes: write(payload) raises TypeError
transportWrite_payload(u) ==
  /\ pc[u] = "w_pay"
  /\ ~cmd_mode
  /\ outTail' = Emit(outTail, Chunk(u, "pay"))
  /\ Written(u)
  /\ lock' = "free"
  /\ pc' = [pc EXCEPT ![u] = cont[u]]
  /\ UNCHANGED <<session, engine, msg, cont, ioFailed, cmd_mode, launched>>

\* where an exception raised inside transportWrite is caught: createProcess
\* catches it (line 829), forceStopAndReport swallows it (line 564), run()
\* catches EOFError only, EventThread.run catches nothing
Catch(u, k) ==
  IF u = "E" THEN "died"
  ELSE IF k = "createRet" THEN "createExc"
  ELSE IF k = "forceRet" THEN "forceRet"
  ELSE "crashed"

\* a write or the flush raises: there is no try/finally, the release is skipped
transportWrite_raise(u) ==
  /\ pc[u] \in {"w_len", "w_pay"}
  /\ ioFailed' = TRUE
  /\ \E flushRaised \in BOOLEAN :
       /\ cmd_mode => ~flushRaised
       /\ IF pc[u] = "w_pay" /\ flushRaised
          THEN /\ outTail' = Emit(outTail, Chunk(u, "pay"))
               /\ Written(u)
          ELSE UNCHANGED <<outTail, nD, reqId>>
  /\ pc' = [pc EXCEPT ![u] = Catch(u, cont[u])]
  /\ IF u = "E" THEN listening' = "none" /\ oproc' = "none" /\ evq' = <<>>
     ELSE UNCHANGED <<listening, oproc, evq>>
  /\ UNCHANGED <<session, proc, msg, cont, lock, launched, cmd_mode>>

\* ------------------------------------------------------------- EventThread
Ev(k) == [k |-> k, st |-> "na"]

\* EventThread.run up to the loop: subscribes the listener to the process of
\* the target the handler holds now, then clears stopRequest
run_init ==
  /\ pc["E"] = "init"
  /\ IF NoProcess
     THEN /\ pc' = [pc EXCEPT !["E"] = "died"]
          /\ UNCHANGED <<listening, evq, stopRequest>>
     ELSE /\ listening' = "cur"
          /\ evq' = <<>>
          /\ stopRequest' = FALSE
          /\ pc' = [pc EXCEPT !["E"] = "loop"]
  /\ UNCHANGED <<target, evRef, desc, proc, oproc,
                 msg, cont, reqId, lock, outTail, nD, ioFailed, cmd_mode, launched>>

\* a thread that clears the handler's reference to it when it returns
run_exit_clearsRef ==
  /\ pc["E"] = "loop"
  /\ stopRequest
  /\ pc' = [pc EXCEPT !["E"] = "exited"]
  /\ listening' = "none"
  /\ oproc' = "none"
  /\ evq' = <<>>
  /\ evRef' = FALSE
  /\ UNCHANGED <<target, stopRequest, desc, proc,
                 msg, cont, reqId, lock, outTail, nD, ioFailed, cmd_mode, launched>>

\* `while not self.stopRequest` is false: the thread returns
run_exit ==
  /\ pc["E"] = "loop"
  /\ stopRequest
  /\ pc' = [pc EXCEPT !["E"] = "exited"]
  /\ listening' = "none"
  /\ oproc' = "none"
  /\ evq' = <<>>
  /\ UNCHANGED <<session, proc,
                 msg, cont, reqId, lock, outTail, nD, ioFailed, cmd_mode, launched>>

\* a stop is reported by its typed message at once
FirstMsg_typedFirst(ev) ==
  IF ev.k = "state" /\ ev.st = "stopped" THEN StoppedMsg("reason", ev.st)
  ELSE IF ev.k = "state" THEN [M("event", "state", ev.st) EXCEPT !.pst = ev.st]
  ELSE M("event", ev.k, "")

\* the modules an event can name: file address and load address of section 1
Modules == [file : 0..MaxAddr, load : 0..MaxAddr]

\* getModulesFromEvents: the modules whose load address is not below their
\* file address, with their slide
getModulesFromEvents(mods) ==
  {[file |-> m.file, load |-> m.load, slide |-> m.load - m.file] :
     m \in {x \in mods : x.load >= x.file}}

\* the `modules` field of the message for a module event of kind k
ModuleList(k, mods) ==
  IF k = "moduleLoaded" THEN getModulesFromEvents(mods) ELSE {}

\* first message the notifier sends for an event, and what follows it
FirstMsg(ev) ==
  IF ev.k = "state" THEN [M("event", "state", ev.st) EXCEPT !.pst = ev.st]
  ELSE M("event", ev.k, "")

\* a stop is reported by its state event only
After_stateOnly(ev) ==
  IF ev.k = "state" /\ ev.st = "detached" THEN "detachedMsg" ELSE "loop"

After(ev) ==
  IF ev.k = "state" /\ ev.st = "stopped" THEN "gather"
  ELSE IF ev.k = "state" /\ ev.st = "detached" THEN "detachedMsg"
  ELSE "loop"

\* one iteration with an event: WaitForEvent returns it and the first message
\* for it is built; an stdout/stderr event with no data sends nothing
run_event ==
  /\ pc["E"] = "loop"
  /\ ~stopRequest
  /\ evq # <<>>
  /\ evq' = Tail(evq)
  /\ LET ev == Head(evq) IN
       \E hasData \in BOOLEAN :
         /\ (ev.k \notin {"stdout", "stderr"}) => hasData
         /\ IF hasData
            THEN /\ msg' = [msg EXCEPT !["E"] = FirstMsg(ev)]
                 /\ cont' = [cont EXCEPT !["E"] = After(ev)]
                 /\ pc' = [pc EXCEPT !["E"] = "w_acq"]
            ELSE UNCHANGED <<msg, cont, pc>>
  /\ UNCHANGED <<session, proc, oproc, listening,
                 reqId, lock, outTail, nD, ioFailed, cmd_mode, launched>>

\* state == eStateStopped: gather thread id, pc and reason, send "stopped"
run_stopped ==
  /\ pc["E"] = "gather"
  /\ msg' = [msg EXCEPT !["E"] = StoppedMsg("reason", Watched)]
  /\ cont' = [cont EXCEPT !["E"] = "loop"]
  /\ pc' = [pc EXCEPT !["E"] = "w_acq"]
  /\ UNCHANGED <<session, engine, reqId, lock, outTail, nD, ioFailed, cmd_mode, launched>>

\* state == eStateDetached: send "detached"
run_detached ==
  /\ pc["E"] = "detachedMsg"
  /\ msg' = [msg EXCEPT !["E"] = Typed("detached", "")]
  /\ cont' = [cont EXCEPT !["E"] = "loop"]
  /\ pc' = [pc EXCEPT !["E"] = "w_acq"]
  /\ UNCHANGED <<session, engine, reqId, lock, outTail, nD, ioFailed, cmd_mode, launched>>

\* ------------------------------------------------------------------ engine
Room == Len(evq) < MaxQ

\* a running process stops (breakpoint, interrupt, step completed)
EngineStop ==
  /\ Room
  /\ \/ /\ proc = "running"
        /\ proc' = "stopped"
        /\ evq' = Broadcast(StateEv("stopped"))
        /\ UNCHANGED oproc
     \/ /\ oproc = "running"
        /\ oproc' = "stopped"
        /\ evq' = Append(evq, StateEv("stopped"))
        /\ UNCHANGED proc
  /\ UNCHANGED <<session, listening, pc, msg, cont, reqId, lock, outTail, nD, ioFailed, cmd_mode, launched>>

\* a running process exits
EngineExit ==
  /\ Room
  /\ \/ /\ proc = "running"
        /\ proc' = "exited"
        /\ evq' = Broadcast(StateEv("exited"))
        /\ UNCHANGED oproc
     \/ /\ oproc = "running"
        /\ oproc' = "exited"
        /\ evq' = Append(evq, StateEv("exited"))
        /\ UNCHANGED proc
  /\ UNCHANGED <<session, listening, pc, msg, cont, reqId, lock, outTail, nD, ioFailed, cmd_mode, launched>>

\* the watched process writes output while it runs, or its target maps or
\* unmaps images
EngineOutput ==
  /\ Room
  /\ listening # "none"
  /\ Watched = "running"
  /\ \E k \in {"stdout", "stderr", "moduleLoaded", "moduleUnloaded"} :
       evq' = Append(evq, Ev(k))
  /\ UNCHANGED <<session, proc, oproc, listening,
                 pc, msg, cont, reqId, lock, outTail, nD, ioFailed, cmd_mode, launched>>

Engine == EngineStop \/ EngineExit \/ EngineOutput

Notifier ==
  \/ run_init \/ run_exit \/ run_event \/ run_stopped \/ run_detached

Transport ==
  \E u \in Units :
    \/ transportWrite_acquire(u)
    \/ transportWrite_length(u)
    \/ transportWrite_payload(u)
    \/ transportWrite_raise(u)

\* --------------------------------------------------- Handler.run (dispatch)
IdOpt == Ids \cup {NoId}

\* the frame of every dispatcher step outside transportWrite
dframe == <<lock, outTail, ioFailed, cmd_mode>>

\* ------------------------------------------------------- transport (read)
HeaderSize == 4     \* self.input_fd.read(4)

EndOfStream == -1   \* transportRead returns None

\* what the reads of one frame return: read(4) returns hdr bytes, the header
\* declares len bytes (struct.unpack('i'): signed), and the reads that follow
\* return got bytes of payload before one returns nothing; read(rem) with a
\* negative rem reads up to the end of the stream
Frames ==
  {f \in [hdr : 0..HeaderSize, len : -1..MaxLen, got : 0..MaxLen] :
     f.len >= 0 => f.got <= f.len}

\* hands over whatever payload arrived
transportRead_partial(f) ==
  IF f.hdr < HeaderSize THEN EndOfStream ELSE f.got

\* transportRead in binary mode (in line mode readline returns the line, or
\* "" at the end of the stream): None on a short header and when a read
\* returns nothing before `length` bytes are there; else the bytes of the line
transportRead(f) ==
  IF f.hdr < HeaderSize THEN EndOfStream
  ELSE IF f.got # f.len THEN EndOfStream
  ELSE f.got

\* the inputs on which transportRead returns a line, and those on which it
\* returns None
Lines == {f \in Frames : transportRead(f) # EndOfStream}

Ends == {f \in Frames : transportRead(f) = EndOfStream}

\* transportRead returns a frame
CanRead ==
  /\ pc["D"] \in {"start", "read"}
  /\ Len(evq) < MaxQ
  /\ Lines # {}

Begin == nD' = 0

\* the id is copied to status replies only
AttachId_statusOnly(res, i) ==
  IF i # NoId /\ res.type = "none" THEN [res EXCEPT !.id = i] ELSE res

\* run(): `if "id" in req: result["id"] = req["id"]`
AttachId(res, i) == IF i # NoId THEN [res EXCEPT !.id = i] ELSE res

\* run(): the result of handleRequest gets the id and goes to sendJSON
Answer(c, i, res) ==
  /\ reqId' = i
  /\ msg' = [msg EXCEPT !["D"] = AttachId(res, i)]
  /\ cont' = [cont EXCEPT !["D"] = "read"]
  /\ pc' = [pc EXCEPT !["D"] = "w_acq"]

\* a handler's own message gets the id of the command
SendThen_withId(c, i, m, k) ==
  /\ reqId' = i
  /\ msg' = [msg EXCEPT !["D"] = AttachId(m, i)]
  /\ cont' = [cont EXCEPT !["D"] = k]
  /\ pc' = [pc EXCEPT !["D"] = "w_acq"]

\* a handler sends a message of its own before it returns to run()
SendThen(c, i, m, k) ==
  /\ reqId' = i
  /\ msg' = [msg EXCEPT !["D"] = m]
  /\ cont' = [cont EXCEPT !["D"] = k]
  /\ pc' = [pc EXCEPT !["D"] = "w_acq"]

\* `except Exception as e: result = self.buildError("bad request: " + str(e))`
BadRequest == buildError("bad request")

\* the same for the KeyError of `req['<name>']` in handleRequest: a required
\* argument, or `command` itself, is missing
MissingArg == buildError("bad request: KeyError")

\* transportRead returns None: stream closed, or short read of header or payload
run_eof ==
  /\ pc["D"] \in {"start", "read"}
  /\ Ends # {}
  /\ pc' = [pc EXCEPT !["D"] = "done"]
  /\ UNCHANGED <<session, engine, dframe, msg, cont, reqId, nD, launched>>

\* line.decode('utf-8') raises UnicodeDecodeError in transportRead: run() has
\* no handler for it, the thread ends
run_badUtf8 ==
  /\ CanRead /\ Begin
  /\ pc' = [pc EXCEPT !["D"] = "readFailed"]
  /\ UNCHANGED <<session, engine, dframe, msg, cont, reqId, launched>>

\* json.loads raises ValueError, or the payload is `null`: sendError
run_cannotDecode ==
  /\ CanRead /\ Begin
  /\ Answer("undecodable", NoId, buildError("cannot decode JSON"))
  /\ UNCHANGED <<session, engine, dframe, launched>>

\* the payload is a JSON number or boolean: handleRequest raises TypeError
\* (caught), then `"id" in req` raises TypeError outside every try
run_scalar ==
  /\ CanRead /\ Begin
  /\ pc' = [pc EXCEPT !["D"] = "crashed"]
  /\ UNCHANGED <<session, engine, dframe, msg, cont, reqId, launched>>

\* the payload is a JSON string or array: handleRequest raises TypeError
\* (caught); `"id" in req` is a substring / membership test, and when it is
\* true `req["id"]` raises TypeError outside every try
run_sequence ==
  /\ CanRead /\ Begin
  /\ \E holdsId \in BOOLEAN :
       IF holdsId
       THEN /\ pc' = [pc EXCEPT !["D"] = "crashed"]
            /\ UNCHANGED <<msg, cont, reqId>>
       ELSE Answer("sequence", NoId, BadRequest)
  /\ UNCHANGED <<session, engine, dframe, launched>>

\* an object without `command` (KeyError), or with a name handleRequest does
\* not know
UnknownNames == {"launch", "stepUntilUserCode", "bogus"}

\* `self.buildError("unknown command '" + command + "'")`
UnknownCommand(c) ==
  CASE c = "launch" -> buildError("unknown command 'launch'")
    [] c = "stepUntilUserCode" -> buildError("unknown command 'stepUntilUserCode'")
    [] OTHER -> buildError("unknown command 'bogus'")

handleRequest_unknown ==
  /\ CanRead /\ Begin
  /\ \E i \in IdOpt :
       \/ Answer("missing", i, MissingArg)
       \/ \E c \in UnknownNames : Answer(c, i, UnknownCommand(c))
  /\ UNCHANGED <<session, engine, dframe, launched>>

ping ==
  /\ CanRead /\ Begin
  /\ \E i \in IdOpt : Answer("ping", i, buildOK)
  /\ UNCHANGED <<session, engine, dframe, launched>>

\* prepareExecutable that reads its arguments after creating the target
prepareExecutable_lateArgs ==
  /\ CanRead /\ Begin
  /\ \E i \in IdOpt, argsOk \in BOOLEAN, valid \in BOOLEAN :
       /\ target' = [h |-> IF valid THEN Fresh ELSE 0]
       /\ proc' = "none"
       /\ Dropped
       /\ desc' = IF valid /\ argsOk THEN 1 ELSE desc
       /\ Answer("prepareExecutable", i,
                 IF ~argsOk THEN MissingArg
                 ELSE IF valid THEN buildOK ELSE buildError("engine failure"))
  /\ UNCHANGED <<evRef, stopRequest, evq, dframe, launched>>

\* prepareExecutable (second definition, the one in effect): CreateTarget
\* overwrites self.target before the result is looked at
prepareExecutable ==
  /\ CanRead /\ Begin
  /\ \E i \in IdOpt, argsOk \in BOOLEAN, valid \in BOOLEAN :
       IF ~argsOk
       THEN /\ Answer("prepareExecutable", i, MissingArg)
            /\ UNCHANGED <<target, desc, proc, oproc, listening>>
       ELSE /\ target' = [h |-> IF valid THEN Fresh ELSE 0]
            /\ proc' = "none"
            /\ Dropped
            /\ desc' = IF valid THEN 1 ELSE desc
            /\ Answer("prepareExecutable", i,
                      IF valid THEN buildOK ELSE buildError("engine failure"))
  /\ UNCHANGED <<evRef, stopRequest, evq, dframe, launched>>

\* start() that raises only when there is no thread object
StartRaises_noRef == ~evRef

\* self.eventThread.start(): AttributeError when self.eventThread is None,
\* RuntimeError when the thread was started before
StartRaises == ~evRef \/ pc["E"] # "new"

\* SBTarget.Launch: the engine refuses while the target's process is alive
\* and otherwise succeeds or fails
LaunchResults == IF Alive(proc) THEN {FALSE} ELSE BOOLEAN

\* `if not error.Success(): return self.buildError(f"failed to launch ...")`
LaunchFailed == buildError("failed to launch process")

\* createProcess that forgets the target when the launch fails
createProcess_dropsTarget ==
  /\ CanRead /\ Begin
  /\ \E i \in IdOpt :
       IF NotTarget
       THEN /\ Answer("createProcess", i, buildError("no executable prepared"))
            /\ UNCHANGED <<proc, target, oproc, listening>>
       ELSE \E ok \in LaunchResults, st \in {"stopped", "running"} :
              IF ~ok
              THEN /\ Answer("createProcess", i, LaunchFailed)
                   /\ target' = NoT
                   /\ proc' = "none"
                   /\ Dropped
              ELSE /\ proc' = st
                   /\ UNCHANGED <<target, oproc, listening>>
                   /\ IF StartRaises
                      THEN Answer("createProcess", i, buildError("exception"))
                      ELSE /\ reqId' = i
                           /\ msg' = [msg EXCEPT !["D"] = StoppedMsg("launched", st)]
                           /\ cont' = [cont EXCEPT !["D"] = "createRet"]
                           /\ pc' = [pc EXCEPT !["D"] = "w_acq", !["E"] = "init"]
  /\ UNCHANGED <<evRef, stopRequest, desc, evq, dframe, launched>>

\* createProcess (second definition, the one in effect), up to
\* sendJSON(stopped_event); st is the process state after Continue()/Stop()
createProcess ==
  /\ CanRead /\ Begin
  /\ \E i \in IdOpt :
       IF NotTarget
       THEN /\ Answer("createProcess", i, buildError("no executable prepared"))
            /\ UNCHANGED proc
       ELSE \E ok \in LaunchResults, st \in {"stopped", "running"} :
              IF ~ok
              THEN /\ Answer("createProcess", i, LaunchFailed)
                   /\ UNCHANGED proc
              ELSE /\ proc' = st
                   /\ IF StartRaises
                      THEN Answer("createProcess", i, buildError("exception"))
                      ELSE /\ reqId' = i
                           /\ msg' = [msg EXCEPT !["D"] = StoppedMsg("launched", st)]
                           /\ cont' = [cont EXCEPT !["D"] = "createRet"]
                           /\ pc' = [pc EXCEPT !["D"] = "w_acq", !["E"] = "init"]
  /\ UNCHANGED <<session, oproc, evq, listening, dframe, launched>>

\* createProcess: `return self.buildOK()` after the stopped message
createProcess_ret ==
  /\ pc["D"] = "createRet"
  /\ Answer("createProcess", reqId, buildOK)
  /\ launched' = TRUE
  /\ UNCHANGED <<session, engine, dframe, nD>>

\* createProcess: `except Exception as e` around the whole body
createProcess_except ==
  /\ pc["D"] = "createExc"
  /\ Answer("createProcess", reqId, buildError("exception"))
  /\ UNCHANGED <<session, engine, dframe, nD, launched>>

\* the reply of the first definition of attachToProcess (lines 325-338) when
\* the executable module is found: buildOK plus section name, addresses and
\* `aslrSlide`
SlideReply == M("ok", "none", "aslrSlide")

\* the reply of the definition in effect after a successful attach: buildOK,
\* whether or not the executable module of the target is resolvable
AttachedReply(resolvable) == buildOK

\* attachToProcess (second definition, the one in effect)
attachToProcess ==
  /\ CanRead /\ Begin
  /\ \E i \in IdOpt, argsOk \in BOOLEAN, r \in {"badTarget", "attachFails", "attached"},
        st \in {"stopped", "running"}, resolvable \in BOOLEAN :
       IF ~argsOk
       THEN /\ Answer("attachToProcess", i, MissingArg)
            /\ UNCHANGED <<target, proc, oproc, listening>>
       ELSE /\ target' = [h |-> IF r = "badTarget" THEN 0 ELSE Fresh]
            /\ proc' = IF r = "attached" THEN st ELSE "none"
            /\ Dropped
            /\ Answer("attachToProcess", i,
                      IF r = "attached" THEN AttachedReply(resolvable)
                      ELSE buildError("engine failure"))
  /\ UNCHANGED <<evRef, stopRequest, desc, evq, dframe, launched>>

\* connectRemote: ConnectRemote is called with encoded bytes and may raise;
\* an exception, also the one of eventThread.start(), leaves through
\* handleRequest to run()
connectRemote ==
  /\ CanRead /\ Begin
  /\ \E i \in IdOpt, argsOk \in BOOLEAN,
        r \in {"badTarget", "raises", "invalid", "connected"}, st \in {"stopped", "running"} :
       IF ~argsOk
       THEN /\ Answer("connectRemote", i, MissingArg)
            /\ UNCHANGED <<target, proc, oproc, listening>>
       ELSE IF ~NoProcess
       THEN /\ Answer("connectRemote", i, buildError("already has a process"))
            /\ UNCHANGED <<target, proc, oproc, listening>>
       ELSE /\ target' = [h |-> IF r = "badTarget" THEN 0 ELSE Fresh]
            /\ proc' = IF r = "connected" THEN st ELSE "none"
            /\ Dropped
            /\ IF r = "connected" /\ ~StartRaises
               THEN /\ reqId' = i
                    /\ msg' = [msg EXCEPT !["D"] = AttachId(buildOK, i)]
                    /\ cont' = [cont EXCEPT !["D"] = "read"]
                    /\ pc' = [pc EXCEPT !["D"] = "w_acq", !["E"] = "init"]
               ELSE Answer("connectRemote", i,
                           IF r \in {"raises", "connected"} THEN BadRequest
                           ELSE buildError("engine failure"))
  /\ UNCHANGED <<evRef, stopRequest, desc, evq, dframe, launched>>

\* SBProcess.Detach / Kill / Continue / Step*: effect on the process of
\* self.target and the state-changed event the engine broadcasts
ProcTo(from, to) ==
  IF proc \in from
  THEN /\ proc' = to
       /\ evq' = Broadcast(StateEv(to))
  ELSE UNCHANGED <<proc, evq>>

detach ==
  /\ CanRead /\ Begin
  /\ launched' = FALSE
  /\ \E i \in IdOpt :
       IF NoProcess
       THEN /\ Answer("detach", i, buildError("no process"))
            /\ UNCHANGED <<proc, evq>>
       ELSE /\ ProcTo({"stopped", "running"}, "detached")
            /\ Answer("detach", i, buildOK)
  /\ UNCHANGED <<session, oproc, listening, dframe>>

\* deleteProcess that asks the thread to stop and goes on without joining it
deleteProcess_nojoin ==
  /\ CanRead /\ Begin
  /\ launched' = FALSE
  /\ \E i \in IdOpt :
       IF NoProcess
       THEN /\ Answer("deleteProcess", i, buildError("no process"))
            /\ UNCHANGED <<target, stopRequest, proc, evRef>>
       ELSE /\ stopRequest' = (evRef \/ stopRequest)
            /\ evRef' = FALSE
            /\ proc' = "none"
            /\ target' = NoT
            /\ Answer("deleteProcess", i, buildOK)
  /\ UNCHANGED <<desc, oproc, evq, listening, dframe>>

\* deleteProcess up to `self.eventThread.join()`; join raises RuntimeError on
\* a thread that was never started
deleteProcess ==
  /\ CanRead /\ Begin
  /\ launched' = FALSE
  /\ \E i \in IdOpt :
       IF NoProcess
       THEN /\ Answer("deleteProcess", i, buildError("no process"))
            /\ UNCHANGED <<target, stopRequest, proc>>
       ELSE IF evRef
       THEN /\ stopRequest' = TRUE
            /\ UNCHANGED <<target, proc>>
            /\ IF pc["E"] = "new"
               THEN Answer("deleteProcess", i, BadRequest)
               ELSE /\ reqId' = i
                    /\ pc' = [pc EXCEPT !["D"] = "join"]
                    /\ UNCHANGED <<msg, cont>>
       ELSE /\ proc' = "none"
            /\ target' = NoT
            /\ UNCHANGED stopRequest
            /\ Answer("deleteProcess", i, buildOK)
  /\ UNCHANGED <<evRef, desc, oproc, evq, listening, dframe>>

\* deleteProcess that does not wait for the thread to end
deleteProcess_join_nowait ==
  /\ pc["D"] = "join"
  /\ evRef' = FALSE
  /\ proc' = "none"
  /\ target' = NoT
  /\ Answer("deleteProcess", reqId, buildOK)
  /\ UNCHANGED <<stopRequest, desc, oproc, evq, listening, dframe, nD, launched>>

\* deleteProcess after join returned: drop the thread, Destroy the process,
\* clear self.target
deleteProcess_join ==
  /\ pc["D"] = "join"
  /\ pc["E"] \in {"exited", "died"}
  /\ evRef' = FALSE
  /\ proc' = "none"
  /\ target' = NoT
  /\ Answer("deleteProcess", reqId, buildOK)
  /\ UNCHANGED <<stopRequest, desc, oproc, evq, listening, dframe, nD, launched>>

hasProcess ==
  /\ CanRead /\ Begin
  /\ \E i \in IdOpt :
       Answer("hasProcess", i, IF NoProcess THEN buildError("no process") ELSE buildOK)
  /\ UNCHANGED <<session, engine, dframe, launched>>

\* the ok reply carries the engine state of the process
getProcessState ==
  /\ CanRead /\ Begin
  /\ \E i \in IdOpt :
       Answer("getProcessState", i,
              IF NoProcess THEN buildError("no process") ELSE buildOK)
  /\ UNCHANGED <<session, engine, dframe, launched>>

continueExecution ==
  /\ CanRead /\ Begin
  /\ \E i \in IdOpt :
       IF NoProcess
       THEN /\ Answer("continueExecution", i, buildError("no process"))
            /\ UNCHANGED <<proc, evq>>
       ELSE /\ ProcTo({"stopped"}, "running")
            /\ Answer("continueExecution", i, buildOK)
  /\ UNCHANGED <<session, oproc, listening, dframe, launched>>

stopExecution ==
  /\ CanRead /\ Begin
  /\ \E i \in IdOpt :
       IF NoProcess
       THEN /\ Answer("stopExecution", i, buildError("no process"))
            /\ UNCHANGED <<proc, evq>>
       ELSE /\ ProcTo({"stopped", "running"}, "exited")
            /\ Answer("stopExecution", i, buildOK)
  /\ UNCHANGED <<session, oproc, listening, dframe, launched>>

\* an interrupt that waits for the process to stop
breakExecution_sync ==
  /\ CanRead /\ Begin
  /\ \E i \in IdOpt :
       IF NoProcess
       THEN /\ Answer("breakExecution", i, buildError("no process"))
            /\ UNCHANGED <<proc, evq>>
       ELSE /\ ProcTo({"running"}, "stopped")
            /\ Answer("breakExecution", i, buildOK)
  /\ UNCHANGED <<session, oproc, listening, dframe, launched>>

\* SendAsyncInterrupt returns at once; the stop is an engine step
breakExecution ==
  /\ CanRead /\ Begin
  /\ \E i \in IdOpt :
       Answer("breakExecution", i, IF NoProcess THEN buildError("no process") ELSE buildOK)
  /\ UNCHANGED <<session, engine, dframe, launched>>

\* forceStopAndReport up to sendJSON: interrupt, poll up to 20 times (the
\* process may stop meanwhile), gather, send "stopped"
forceStopAndReport ==
  /\ CanRead /\ Begin
  /\ \E i \in IdOpt, stops \in BOOLEAN :
       IF NoProcess
       THEN /\ Answer("forceStopAndReport", i, buildError("no process"))
            /\ UNCHANGED <<proc, evq>>
       ELSE /\ IF stops THEN ProcTo({"running"}, "stopped")
               ELSE UNCHANGED <<proc, evq>>
            /\ SendThen("forceStopAndReport", i, StoppedMsg("reason", proc'), "forceRet")
  /\ UNCHANGED <<session, oproc, listening, dframe, launched>>

\* forceStopAndReport: `return self.buildOK()`, also after a swallowed exception
forceStopAndReport_ret ==
  /\ pc["D"] = "forceRet"
  /\ Answer("forceStopAndReport", reqId, buildOK)
  /\ UNCHANGED <<session, engine, dframe, nD, launched>>

\* stepInstruction, stepOver, stepOut: guard, thread.Step*(), buildOK
Step(c) ==
  /\ CanRead /\ Begin
  /\ \E i \in IdOpt :
       IF NoProcess
       THEN /\ Answer(c, i, buildError("no process"))
            /\ UNCHANGED <<proc, evq>>
       ELSE /\ ProcTo({"stopped"}, "running")
            /\ Answer(c, i, buildOK)
  /\ UNCHANGED <<session, oproc, listening, dframe, launched>>

stepInstruction == Step("stepInstruction")

stepOver == Step("stepOver")

stepOut == Step("stepOut")

\* ---------------------------------------- handlers that only query the engine
\* results of the guard a handler starts with
ProcGuard == IF NoProcess THEN {buildError("no process")} ELSE {}

TargetGuard == IF target = NoT THEN {buildError("no target")} ELSE {}

\* `self.target is None or not self.target.IsValid()`, then
\* `process is None or not process.IsValid()`
DisasGuard ==
  IF NotTarget THEN {buildError("no target")}
  ELSE IF proc = "none" THEN {buildError("no process")}
  ELSE {}

\* handleRequest branch for command c: a missing argument raises KeyError in
\* handleRequest; the handler returns at its guard or with one of the results
\* the engine call can produce; session and engine state are not written
Query(c, needsArgs, early, results) ==
  /\ CanRead /\ Begin
  /\ \E i \in IdOpt, argsOk \in BOOLEAN :
       /\ ~needsArgs => argsOk
       /\ IF ~argsOk THEN Answer(c, i, MissingArg)
          ELSE \E r \in (IF early # {} THEN early ELSE results) : Answer(c, i, r)
  /\ UNCHANGED <<session, engine, dframe, launched>>

getThreadIDList == Query("getThreadIDList", FALSE, ProcGuard, {buildOK})

selectThreadID ==
  Query("selectThreadID", TRUE, ProcGuard, {buildOK, buildError("engine failure")})

getRegisters == Query("getRegisters", FALSE, ProcGuard, {Typed("registers", "")})

disassembly ==
  Query("disassembly", TRUE, DisasGuard,
        {Typed("disassembly", ""), buildError("engine failure")})

getMainExecutableDisassembly ==
  Query("getMainExecutableDisassembly", FALSE, DisasGuard,
        {Typed("disassembly", ""), buildError("engine failure")})

\* `req.get('stringAddress', 0)`: a missing address is 0; one that is not an
\* integer makes the `:x` format in handleRequest raise, before the handler
findStringReferences ==
  Query("findStringReferences", FALSE,
        IF DisasGuard # {} THEN DisasGuard \cup {BadRequest} ELSE {},
        {Typed("string_references", ""), buildError("exception"), BadRequest})

\* the reply to a breakpoint that was set: buildOK plus `bkpt_id`
BreakpointSet == M("ok", "none", "bkpt_id")

\* with a process to resolve against
setBreakpointAtVirtualAddress_needsProcess ==
  Query("setBreakpointAtVirtualAddress", TRUE, ProcGuard, {BreakpointSet})

setBreakpointAtVirtualAddress ==
  Query("setBreakpointAtVirtualAddress", TRUE, TargetGuard, {BreakpointSet})

removeBreakpoint == Query("removeBreakpoint", TRUE, TargetGuard, {buildOK})

removeAllBreakpoints ==
  Query("removeAllBreakpoints", FALSE, TargetGuard,
        {buildOK, buildError("engine failure")})

\* the parameter `len` hides the builtin: after a successful ReadMemory,
\* `len(bytes_tuple)` raises TypeError, which run() answers as a bad request
readMemory ==
  Query("readMemory", TRUE, ProcGuard,
        {buildError("unable to read memory"), BadRequest})

\* writeByte answers with a typed payload in every case, success False with
\* error "no process" at its guard
writeByte ==
  Query("writeByte", TRUE,
        IF NoProcess THEN {Typed("writeByte", "no process")} ELSE {},
        {Typed("writeByte", "success"), Typed("writeByte", "unable to write process memory")})

getCallstack == Query("getCallstack", FALSE, ProcGuard, {buildOK})

\* a selection that resumes the thread
selectFrame_resumes == Step("selectFrame")

selectFrame == Query("selectFrame", TRUE, ProcGuard, {buildOK})

setRegister ==
  Query("setRegister", TRUE, ProcGuard,
        {buildOK, buildError("engine failure"), BadRequest})

\* no guard: the command interpreter belongs to the debugger, not the target;
\* the call raises when the binding rejects the encoded bytes
executeCommand == Query("executeCommand", TRUE, {}, {buildOK, BadRequest})

completeCommand == Query("completeCommand", TRUE, {}, {buildOK, BadRequest})

sendToApplication ==
  Query("sendToApplication", TRUE, ProcGuard,
        {buildOK, buildError("engine failure")})

moduleCount == Query("moduleCount", FALSE, ProcGuard, {buildOK})

\* `index >= self.moduleCount()` compares an int with the reply dict
moduleAtIndex ==
  Query("moduleAtIndex", TRUE, ProcGuard, {buildError("engine failure"), BadRequest})

moduleForFile ==
  Query("moduleForFile", TRUE, ProcGuard,
        {buildOK, buildError("engine failure")})

\* -------------------------------------------------------------------- Next
Read ==
  \/ run_eof \/ run_badUtf8 \/ run_cannotDecode \/ run_scalar \/ run_sequence

Lifecycle ==
  \/ prepareExecutable \/ createProcess \/ createProcess_ret \/ createProcess_except
  \/ attachToProcess \/ connectRemote \/ detach \/ deleteProcess \/ deleteProcess_join

Control ==
  \/ continueExecution \/ stopExecution \/ breakExecution
  \/ forceStopAndReport \/ forceStopAndReport_ret
  \/ stepInstruction \/ stepOver \/ stepOut

Queries ==
  \/ handleRequest_unknown \/ ping \/ hasProcess \/ getProcessState
  \/ getThreadIDList \/ selectThreadID \/ getRegisters \/ disassembly
  \/ getMainExecutableDisassembly \/ findStringReferences
  \/ setBreakpointAtVirtualAddress \/ removeBreakpoint \/ removeAllBreakpoints
  \/ readMemory \/ writeByte \/ getCallstack \/ selectFrame \/ setRegister
  \/ executeCommand \/ completeCommand \/ sendToApplication
  \/ moduleCount \/ moduleAtIndex \/ moduleForFile

Next == Read \/ Lifecycle \/ Control \/ Queries \/ Notifier \/ Engine \/ Transport

Spec == Init /\ [][Next]_vars

\* a session that is prepared, launched by createProcess, controlled
\* (continue, interrupt, kill, step) and detached or deleted, until the input
\* stream closes
LaunchNext ==
  \/ run_eof
  \/ prepareExecutable
  \/ createProcess \/ createProcess_ret \/ createProcess_except
  \/ detach \/ deleteProcess \/ deleteProcess_join
  \/ Control
  \/ Notifier \/ Engine \/ Transport

\* scheduling: the notifier thread and a thread inside transportWrite keep
\* running, and a thread waiting in transport_lock.acquire() gets the lock
\* when it is released again and again
FairSpec ==
  /\ Init /\ [][LaunchNext]_vars
  /\ WF_vars(Notifier)
  /\ \A u \in Units : WF_vars(transportWrite_length(u) \/ transportWrite_payload(u))
  /\ SF_vars(transportWrite_acquire("E"))

TypeOK ==
  /\ lock \in {"free", "D", "E"}
  /\ proc \in ProcStates /\ oproc \in ProcStates
  /\ listening \in {"none", "cur", "orphan"}
  /\ Len(evq) <= MaxQ

\* ------------------------------------------------------------------ claims
Running(p) == p \in {"init", "loop", "w_acq", "w_len", "w_pay", "gather", "detachedMsg"}

\* C1: as long as no write has raised, the dispatcher writes exactly one
\* message for every frame it has read: never more than one, and it neither
\* goes back to reading nor ends having written none
C1_OneAnswerPerFrame ==
  ~ioFailed => /\ nD <= 1
               /\ pc["D"] \in {"read", "crashed", "readFailed"} => nD = 1

\* C2: the reply handed to the transport for a command carries the id of that
\* command, and no id when the command has none, whether it is a status reply
\* or a typed payload
C2_IdEchoed ==
  (pc["D"] = "w_acq" /\ cont["D"] = "read") => msg["D"].id = reqId

\* a typed payload reply to a command that supplied an id is being written
C2_Witness ==
  /\ pc["D"] = "w_acq" /\ cont["D"] = "read"
  /\ msg["D"].type # "none" /\ msg["D"].id \in Ids

\* C3: the output stream is a sequence of whole frames, followed at most by
\* the length prefix of the frame its writer, who holds the lock, is writing
C3_WholeFrames ==
  \/ outTail = <<>>
  \/ \E u \in Units : outTail = <<Chunk(u, "len")>> /\ lock = u

\* the notifier has written a length prefix while the dispatcher has a reply
\* to write
C3_Witness ==
  /\ pc["E"] = "w_pay" /\ pc["D"] = "w_acq" /\ outTail = <<Chunk("E", "len")>>

\* C4: the transport lock is held only by a unit that is inside transportWrite
C4_LockReleased ==
  \A u \in Units : lock = u => pc[u] \in {"w_len", "w_pay"}

\* C5: a frame whose payload decodes to a JSON value that is not an object
\* (number, boolean, string, array) is answered with an error reply
C5_DecodableFrameAnswered ==
  [][(run_scalar \/ run_sequence)
       => (pc'["D"] = "w_acq" /\ msg'["D"].status = "error")]_vars

\* C6: with a target that has a process, attachToProcess and connectRemote
\* reply with an error and leave the target handle and the process unchanged
C6_LiveTargetKept ==
  [][((attachToProcess \/ connectRemote) /\ target # NoT /\ proc # "none")
       => (msg'["D"].status = "error" /\ target' = target /\ proc' = proc)]_vars

\* C7: a createProcess after an answered createProcess, with no detach or
\* deleteProcess in between, replies with an error, launches no process,
\* leaves the notifier alone and keeps the target
C7_SecondLaunchRefused ==
  [][(createProcess /\ launched)
       => /\ msg'["D"].status = "error"
          /\ proc' = proc
          /\ pc'["E"] = pc["E"]
          /\ target' = target]_vars

\* the commands other than ping, prepareExecutable, createProcess,
\* attachToProcess and connectRemote
OtherCommand ==
  \/ detach \/ deleteProcess \/ hasProcess \/ getProcessState
  \/ continueExecution \/ stopExecution \/ breakExecution \/ forceStopAndReport
  \/ stepInstruction \/ stepOver \/ stepOut
  \/ getThreadIDList \/ selectThreadID \/ getRegisters \/ disassembly
  \/ getMainExecutableDisassembly \/ findStringReferences
  \/ setBreakpointAtVirtualAddress \/ removeBreakpoint \/ removeAllBreakpoints
  \/ readMemory \/ writeByte \/ getCallstack \/ selectFrame \/ setRegister
  \/ executeCommand \/ completeCommand \/ sendToApplication
  \/ moduleCount \/ moduleAtIndex \/ moduleForFile

\* C8: with no target, every other command is answered `status: error` and
\* leaves target, descriptor and notifier unchanged
C8_UninitializedRejects ==
  [][(target = NoT /\ OtherCommand)
       => /\ msg'["D"].status = "error"
          /\ target' = target /\ desc' = desc
          /\ evRef' = evRef /\ pc'["E"] = pc["E"]]_vars

\* C9: after a deleteProcess that succeeded (self.eventThread is None from
\* then on), a createProcess on a prepared target that the engine launches
\* goes on to its ok reply and starts the notifier
C9_RelaunchAfterDelete ==
  [][(createProcess /\ ~evRef /\ ~NotTarget /\ proc' # proc)
       => (cont'["D"] = "createRet" /\ pc'["E"] = "init")]_vars

\* C10: a detach or stopExecution that replies ok leaves no target, no
\* process for hasProcess / getProcessState, and no running notifier
C10_BackToUninitialized ==
  [][((detach \/ stopExecution) /\ msg'["D"].status = "ok")
       => /\ target' = NoT
          /\ proc' = "none"
          /\ ~Running(pc'["E"])]_vars

\* C11: when deleteProcess hands its ok reply to the transport, the notifier
\* thread has ended (it was asked to stop and joined), the process is
\* destroyed and self.target is None, so that hasProcess finds no process
C11_DeleteTearsDown ==
  [][((deleteProcess \/ deleteProcess_join) /\ msg'["D"].status = "ok")
       => /\ target' = NoT
          /\ proc' = "none"
          /\ ~Running(pc'["E"])
          /\ ~evRef']_vars

\* deleteProcess is answering ok after it joined a notifier that had been
\* running
C11_Witness ==
  /\ pc["D"] = "w_acq" /\ msg["D"].status = "ok" /\ cont["D"] = "read"
  /\ pc["E"] = "exited" /\ ~evRef /\ stopRequest /\ target = NoT

\* C12: while deleteProcess waits in join for a notifier that has not ended,
\* the stop request it set is still set
C12_StopRequestKept ==
  (pc["D"] = "join" /\ Running(pc["E"])) => stopRequest

\* C13: an ok reply to createProcess, attachToProcess or connectRemote is
\* given with a notifier thread running
C13_ActiveHasNotifier ==
  [][((createProcess_ret \/ attachToProcess \/ connectRemote)
        /\ msg'["D"].status = "ok")
       => Running(pc'["E"])]_vars

\* the listener of the notifier started by createProcess holds a stop event
StopReported ==
  /\ launched /\ listening = "cur"
  /\ evq # <<>> /\ Head(evq) = StateEv("stopped")

\* the notifier hands the `stopped` notification to transportWrite
StoppedHandedOver == pc["E"] = "w_acq" /\ msg["E"].type = "stopped"

C15_StepInterruptsFirst ==
  [][((stepInstruction \/ stepOver \/ stepOut)
        /\ ~NoProcess /\ proc = "running"
        /\ pc'["D"] = "w_acq" /\ msg'["D"].status = "ok")
       => proc' = "stopped"]_vars

C17_TruncatedIsEndOfStream ==
  /\ [](\A f \in Frames :
         (f.hdr < HeaderSize \/ f.got < f.len) => transportRead(f) = EndOfStream)
  /\ [][run_eof => /\ pc'["D"] = "done"
                   /\ msg' = msg /\ nD' = nD
                   /\ outTail' = outTail /\ lock' = lock]_vars

\* the dispatch loop has ended after an answered command, nothing being
\* written
C17_Witness ==
  /\ pc["D"] = "done" /\ nD = 1
  /\ msg["D"] = NoMsg /\ outTail = <<>> /\ lock = "free"

\* C18: when the input stream closes while a notifier thread runs, the
\* notifier is asked to stop
C18_EofStopsNotifier ==
  [][(run_eof /\ Running(pc["E"])) => stopRequest']_vars

\* C19: after an error reply to prepareExecutable, createProcess,
\* attachToProcess or connectRemote, self.target is what it was before the
\* command, or None
C19_FailedTargetDiscarded ==
  [][((prepareExecutable \/ createProcess \/ attachToProcess \/ connectRemote)
        /\ msg'["D"].status = "error")
       => (target' = target \/ target' = NoT)]_vars

\* C20: prepareExecutable replies with an error when the session holds a
\* target, and in no case creates a target or touches the engine
C20_PrepareStoresOnly ==
  [][prepareExecutable
       => /\ target' = target
          /\ proc' = proc
          /\ target # NoT => (msg'["D"].status = "error" /\ desc' = desc)]_vars

\* C21: a command that lacks a required argument is answered with the
\* bad-request error of its KeyError, and session, engine and notifier are as
\* they were when the command was read
C21_MissingArgumentRejected ==
  [][(pc["D"] \in {"start", "read"} /\ pc'["D"] = "w_acq"
        /\ msg'["D"].text = MissingArg.text)
       => /\ msg'["D"] = AttachId(MissingArg, reqId')
          /\ cont'["D"] = "read"
          /\ session' = session /\ engine' = engine
          /\ pc'["E"] = pc["E"]]_vars

\* the missing-argument reply is being given in a session whose process runs
\* under a notifier
C21_Witness ==
  /\ pc["D"] = "w_acq" /\ msg["D"].text = MissingArg.text
  /\ target # NoT /\ proc = "running" /\ pc["E"] = "loop"

\* C22: on a stopped process, a readMemory that has its arguments and whose
\* engine read succeeds replies with a `memory` result, the one the round
\* trip with writeByte compares
C22_ReadReturnsMemory ==
  [][(readMemory /\ ~NoProcess /\ proc = "stopped"
        /\ msg'["D"].text \notin {MissingArg.text, "unable to read memory"})
       => msg'["D"].type = "memory"]_vars

\* C23: no step of the notifier thread, inside or outside transportWrite,
\* changes self.target, the prepared descriptor or self.eventThread
C23_NotifierObservesOnly ==
  [][(\/ Notifier
      \/ transportWrite_acquire("E") \/ transportWrite_length("E")
      \/ transportWrite_payload("E") \/ transportWrite_raise("E"))
       => UNCHANGED <<target, desc, evRef>>]_vars

\* the notifier has run and returned while the session still holds its
\* target and the reference to the thread
C23_Witness ==
  /\ pc["E"] = "exited" /\ pc["D"] = "join"
  /\ target # NoT /\ evRef /\ desc = 1

\* C24: for a state-changed event the notifier first sends the generic
\* `state` message; after it, it sends one `stopped` message exactly when the
\* state is stopped and one `detached` message exactly when it is detached,
\* then goes back to its loop; a typed message is sent only from there
C24_GenericThenTyped ==
  /\ [][(run_event /\ Head(evq).k = "state")
          => /\ pc'["E"] = "w_acq"
             /\ msg'["E"].status = "event" /\ msg'["E"].type = "state"
             /\ msg'["E"].text = Head(evq).st
             /\ (cont'["E"] = "gather") <=> (Head(evq).st = "stopped")
             /\ (cont'["E"] = "detachedMsg") <=> (Head(evq).st = "detached")
             /\ cont'["E"] \in {"gather", "detachedMsg", "loop"}]_vars
  /\ [][(pc["E"] = "gather" /\ pc'["E"] # "gather")
          => (pc'["E"] = "w_acq" /\ msg'["E"].type = "stopped"
              /\ cont'["E"] = "loop")]_vars
  /\ [][(pc["E"] = "detachedMsg" /\ pc'["E"] # "detachedMsg")
          => (pc'["E"] = "w_acq" /\ msg'["E"].type = "detached"
              /\ cont'["E"] = "loop")]_vars
  /\ [][(msg'["E"] # msg["E"] /\ msg'["E"].type = "stopped") => pc["E"] = "gather"]_vars
  /\ [][(msg'["E"] # msg["E"] /\ msg'["E"].type = "detached")
          => pc["E"] = "detachedMsg"]_vars

\* the generic message for a detach is written, the `detached` message is next
C24_Witness ==
  /\ pc["E"] = "detachedMsg" /\ proc = "detached" /\ outTail = <<>>

\* C25: no message handed to the transport carries both a `status` and a
\* `type` field
C25_StatusOrType ==
  \A u \in Units :
    pc[u] = "w_acq" => (msg[u].status = "none" \/ msg[u].type = "none")

\* C26: when the dispatcher reads, a whole frame on the input stream, however
\* its bytes are split over the reads (the first read returns at least one
\* byte, every payload byte arrives), is returned by transportRead with its
\* whole payload
C26_FrameRoundTrip ==
  pc["D"] \in {"start", "read"}
    => \A f \in Frames :
         (f.hdr >= 1 /\ f.got = f.len) => transportRead(f) = f.len

\* C27: `launch` and `stepUntilUserCode` are never answered with the
\* unknown-command error
C27_SpecifiedNamesRouted ==
  pc["D"] = "w_acq"
    => msg["D"].text \notin {UnknownCommand("launch").text,
                             UnknownCommand("stepUntilUserCode").text}

C29_SelectionOnly ==
  [][(selectThreadID \/ selectFrame)
       => /\ session' = session /\ engine' = engine
          /\ pc'["E"] = pc["E"] /\ msg'["E"] = msg["E"]
          /\ (NoProcess /\ msg'["D"].text # MissingArg.text)
               => msg'["D"] = AttachId(buildError("no process"), reqId')]_vars

\* a selection is answered ok while the process is stopped under a notifier
C29_Witness ==
  /\ pc["D"] = "w_acq" /\ msg["D"].status = "ok" /\ cont["D"] = "read"
  /\ proc = "stopped" /\ listening = "cur" /\ pc["E"] = "loop" /\ evq = <<>>

\* C30: when the notifier takes a module event, loaded or unloaded, the
\* `modules` list of its message holds exactly the modules of the event
\* whose load address is not below their file address, each with its slide
C30_ModulesListed ==
  (pc["E"] = "loop" /\ evq # <<>>
     /\ Head(evq).k \in {"moduleLoaded", "moduleUnloaded"})
    => \A mods \in SUBSET Modules :
         ModuleList(Head(evq).k, mods) =
           {[file |-> m.file, load |-> m.load, slide |-> m.load - m.file] :
              m \in {x \in mods : x.load >= x.file}}

\* C31: an ok reply of attachToProcess made with the executable module
\* resolvable carries the slide of the main image
C31_AttachReportsSlide ==
  [][(attachToProcess /\ msg'["D"].status = "ok")
       => \A resolvable \in BOOLEAN :
            (resolvable /\ msg'["D"] = AttachId(AttachedReply(resolvable), reqId'))
              => msg'["D"].text = SlideReply.text]_vars

\* C32: in line mode, a dispatcher that leaves the write of its payload has
\* written one whole output line and goes on where its caller continues, for
\* a reply back to reading; the mode never changes
C32_LineModeAnswers ==
  [][/\ cmd_mode' = cmd_mode
     /\ (cmd_mode /\ pc["D"] = "w_pay" /\ pc'["D"] # "w_pay")
          => (nD' = nD + 1 /\ pc'["D"] = cont["D"])]_vars

\* C33: the notifier holds the transport lock only while it is inside
\* transportWrite writing a message: not while it waits for an event or
\* gathers stop details, and not after it has left the write
C33_NotifierLockOnlyInWrite ==
  lock = "E" => pc["E"] \in {"w_len", "w_pay"}

\* C34: forceStopAndReport with no process replies `no process` and sends
\* nothing else; with a process it comes to its `return self.buildOK()`
\* having written exactly one message, the `stopped` one, and its reply is
\* not kept waiting by a lock the dispatcher itself holds
C34_ForceStopReports ==
  [][/\ (forceStopAndReport /\ NoProcess)
          => (msg'["D"] = AttachId(buildError("no process"), reqId')
              /\ cont'["D"] = "read")
     /\ (forceStopAndReport /\ ~NoProcess)
          => (msg'["D"].type = "stopped" /\ cont'["D"] = "forceRet")
     /\ forceStopAndReport_ret
          => (nD = 1 /\ lock # "D"
              /\ msg'["D"] = AttachId(buildOK, reqId') /\ cont'["D"] = "read")]_vars

\* C35: every `stopped` message handed to the transport, by the notifier, by
\* createProcess or by forceStopAndReport, was built while the engine state
\* of its process was Stopped
C35_StoppedMeansStopped ==
  \A u \in Units :
    (pc[u] = "w_acq" /\ msg[u].type = "stopped") => msg[u].pst = "stopped"

\* C36: when deleteProcess hands over its ok reply the notifier thread has
\* ended and the handler holds no thread; from such a state on the thread
\* stays ended and hands no message to the transport
C36_NoNotificationAfterDelete ==
  [][/\ ((deleteProcess \/ deleteProcess_join) /\ msg'["D"].status = "ok")
          => (~evRef' /\ pc'["E"] \in {"exited", "died"})
     /\ (~evRef /\ pc["E"] \in {"exited", "died"})
          => (~evRef' /\ pc'["E"] = pc["E"] /\ msg'["E"] = msg["E"])]_vars

\* the ok reply of a deleteProcess that joined a running notifier is written
C36_Witness ==
  /\ pc["D"] = "read" /\ nD = 1 /\ lock = "free" /\ outTail = <<>>
  /\ ~evRef /\ stopRequest /\ pc["E"] = "exited" /\ target = NoT /\ ~cmd_mode

\* C37: a message handed to the transport carries an id only if it is the
\* reply run() gives to the command being answered, and then that command's
\* id; when createProcess comes to its `return self.buildOK()` its `stopped`
\* message, which has no id, is already written
C37_IdOnlyInReply ==
  /\ \A u \in Units :
       (pc[u] = "w_acq" /\ msg[u].id # NoId)
         => (u = "D" /\ cont["D"] = "read" /\ msg[u].id = reqId)
  /\ pc["D"] = "createRet" => nD = 1
  /\ (pc["D"] = "w_acq" /\ cont["D"] = "createRet")
       => (msg["D"] = StoppedMsg("launched", msg["D"].pst) /\ nD = 0)

\* the ok reply of a createProcess that gave an id is handed over after its
\* `stopped` message was written
C37_Witness ==
  /\ pc["D"] = "w_acq" /\ cont["D"] = "read" /\ launched /\ nD = 1
  /\ msg["D"].status = "ok" /\ msg["D"].id \in Ids /\ Running(pc["E"])

\* the dispatcher step in which self.eventThread.start() returns
ThreadStarted ==
  \/ createProcess /\ cont'["D"] = "createRet"
  \/ connectRemote /\ msg'["D"].status = "ok"

\* C38: the handler creates one EventThread object and no other; start()
\* returns only on that object while it has never run, and the thread begins
\* to run only then: at no time does more than one notifier thread run
C38_OneNotifier ==
  [][/\ ThreadStarted => (pc["E"] = "new" /\ evRef /\ pc'["E"] = "init")
     /\ (pc'["E"] = "init" /\ pc["E"] # "init") => ThreadStarted
     /\ pc["E"] \in {"exited", "died"} => pc'["E"] = pc["E"]]_vars

\* a second process is alive on a new target while the notifier still
\* watches the process of the target it was started for: the start of a
\* thread for the new process was refused
C38_Witness ==
  /\ pc["D"] = "w_acq" /\ msg["D"].status = "error"
  /\ listening = "orphan" /\ pc["E"] = "loop" /\ Alive(proc) /\ Alive(oproc)

\* C39: a createProcess whose launch the engine fails replies with the
\* launch error and nothing else: no `stopped` message, the notifier is not
\* started, target, descriptor and process are as before, so that the
\* conditions under which a createProcess launches still hold
C39_FailedLaunchRetryable ==
  [][(createProcess /\ msg'["D"].text = LaunchFailed.text)
       => /\ msg'["D"] = AttachId(LaunchFailed, reqId')
          /\ cont'["D"] = "read"
          /\ session' = session /\ engine' = engine
          /\ pc'["E"] = pc["E"] /\ msg'["E"] = msg["E"]
          /\ ~NotTarget /\ StartRaises' = StartRaises]_vars

\* the launch of a prepared target failed; the thread object is still
\* unstarted and the target has no process: a retry can launch
C39_Witness ==
  /\ pc["D"] = "w_acq" /\ msg["D"].text = LaunchFailed.text
  /\ target # NoT /\ target.h # 0 /\ desc = 1
  /\ proc = "none" /\ evRef /\ pc["E"] = "new"

\* C40: with the header read, transportRead delivers nothing but a payload of
\* the declared length L: the L bytes when L > 0 and they are all there, the
\* empty payload when L = 0, nothing when L < 0; a read that finds its bytes
\* hands them to the loop, the empty payload is answered `cannot decode JSON`
\* and the loop reads on, and without a payload the loop ends
C40_HeaderLengthHonoured ==
  [][/\ \A f \in Frames :
          f.hdr = HeaderSize
            => /\ transportRead(f) # EndOfStream => transportRead(f) = f.len
               /\ (f.len > 0 /\ f.got = f.len) => transportRead(f) = f.len
               /\ f.len = 0 => transportRead(f) = 0
               /\ f.len < 0 => transportRead(f) = EndOfStream
     /\ (pc["D"] \in {"start", "read"} /\ pc'["D"] # pc["D"])
          => pc'["D"] # "readFailed"
     /\ run_cannotDecode
          => (msg'["D"] = buildError("cannot decode JSON") /\ cont'["D"] = "read")
     /\ run_eof => pc'["D"] = "done"]_vars

====
